---- MODULE Spec2Model ----
(***************************************************************************)
(* Graph editing engine of the canvas (Canvas component and the node       *)
(* components that spawn derived nodes): node/edge store, connection       *)
(* validator, connection-drag gesture and the debounced save.              *)
(*                                                                         *)
(* What the model takes from the environment of the Canvas component:      *)
(*  - the project is loaded (the page answers notFound() otherwise), so    *)
(*    the save callback never returns for want of a project;               *)
(*  - the flow component reports the deletion of a node together with the  *)
(*    removal of the edges connected to it;                                *)
(*  - a placeholder ('drop') node renders no handle: a connection drag     *)
(*    neither starts nor ends on it;                                       *)
(*  - a connection drag is modal: no other pointer or keyboard gesture     *)
(*    runs between its start and its end, while timers, uploads and save   *)
(*    requests may complete at any moment;                                 *)
(*  - two firings of the debounce timer are DebounceMs apart at least, so  *)
(*    the save callback reads the isSaving flag of the latest render;      *)
(*  - a paste gesture reaches one entry point: the meta+v hotkey prevents  *)
(*    the default of its key press, so the browser raises no paste event   *)
(*    for it; a paste event comes from a paste the hotkey does not match;  *)
(*  - one paste gesture is under way at a time.                            *)
(***************************************************************************)
EXTENDS Integers, Sequences, FiniteSets, TLC

\* ---------------------------------------------------------------- bounds
\* the editing specification (Spec): the graph and its gestures
MaxNodes == 3
MaxEdges == 3
MaxIds == 3
MaxEdgeIds == 2
MaxCopied == 1
\* images a split yields (nine in the code, one upload each)
SplitCount == 1
\* the persistence specification (SaveSpec): the same gestures on a smaller
\* graph, with the debounce timer and the save requests
SaveMaxNodes == 2
SaveMaxEdges == 1
SaveMaxIds == 2
SaveMaxEdgeIds == 1
\* the paste specification (PasteSpec): room for a copied node, its copy and
\* an image node
PasteMaxNodes == 3
PasteMaxEdges == 1
PasteMaxIds == 3
PasteMaxEdgeIds == 1
\* the batch specification (BatchSpec): two copied nodes and their copies
BatchMaxNodes == 4
BatchMaxIds == 4
BatchMaxCopied == 2
\* successful saves followed
MaxSaved == 2
\* the open specification (OpenSpec): a saved graph of two nodes and an edge,
\* and one more node
OpenMaxNodes == 3
OpenMaxEdges == 1
OpenMaxIds == 3
OpenMaxEdgeIds == 1
GraphLimits == [nodes |-> MaxNodes, edges |-> MaxEdges, ids |-> MaxIds,
                edgeIds |-> MaxEdgeIds, copied |-> MaxCopied]
SaveLimits == [nodes |-> SaveMaxNodes, edges |-> SaveMaxEdges,
               ids |-> SaveMaxIds, edgeIds |-> SaveMaxEdgeIds,
               copied |-> MaxCopied]
BatchLimits == [nodes |-> BatchMaxNodes, edges |-> 0, ids |-> BatchMaxIds,
                edgeIds |-> 0, copied |-> BatchMaxCopied]
OpenLimits == [nodes |-> OpenMaxNodes, edges |-> OpenMaxEdges,
               ids |-> OpenMaxIds, edgeIds |-> OpenMaxEdgeIds,
               copied |-> MaxCopied]
PasteLimits == [nodes |-> PasteMaxNodes, edges |-> PasteMaxEdges,
                ids |-> PasteMaxIds, edgeIds |-> PasteMaxEdgeIds,
                copied |-> MaxCopied]

\* ------------------------------------------------------------- constants
DebounceMs == 1000
DuplicateOffset == 200
NoId == 0
NoDrag == [active |-> FALSE, from |-> NoId, isSourceHandle |-> FALSE]
NoSplit == [active |-> FALSE, id |-> NoId, position |-> [x |-> 0, y |-> 0],
            done |-> 0]
Kinds == {"image", "audio"}
\* what the system clipboard holds when a paste reads it
ClipboardContents == {"image", "other"}
\* no paste gesture is under way; error tells how the last one failed: the
\* clipboard "read" or the "upload" rejected into the catch of handlePaste,
\* or the upload rejected "unhandled" in handlePasteEvent
pasteEnded(error) == [stage |-> "none", entry |-> "none", copied |-> <<>>,
                      error |-> error]
Origin == [x |-> 0, y |-> 0]
ViewportCenter == [x |-> 640, y |-> 360]
PointerPosition == [x |-> 300, y |-> 100]
MeasuredWidth == 400
MeasuredHeight == 400
SplitSpacing == 60
SplitCols == 3

\* nodes, edges    the node and edge arrays of the Canvas state
\* nextId          the next node id nanoid() hands out (ids are never reused)
\* nextEdgeId      the same for the ids of edges
\* content         project.content, the persisted snapshot the project was
\*                 opened with
\* copiedNodes     the nodes captured by the last copy
\* connection      the connection drag in progress, if any
\* pendingSelect   the setTimeout(0) callbacks of duplicateNode not yet run
\* splitting       the handleSplit call waiting for an upload, if any
\* timerArmed      the debounce timer of save is running
\* isSaving        saveState.isSaving
\* inflight        the snapshots of the updateProjectAction calls not yet
\*                 answered
\* server          the snapshot the persistence collaborator wrote last
\* saveOutcome     how the last answered save ended: "saved" (lastSaved is
\*                 set) or "error" (handleError is called)
\* lastSaved       saveState.lastSaved: 0 before the first successful save,
\*                 then the reading of a clock that each new Date() advances
\* unnotified      the store changed after the last call of the debounced
\*                 save
\* pasting         the paste gesture under way: the await it stands at, the
\*                 entry point it came through and the copiedNodes its
\*                 handlePaste closure holds; error is how the last gesture
\*                 failed, if it did
VARIABLES nodes, edges, nextId, nextEdgeId, copiedNodes, connection,
          pendingSelect, splitting, timerArmed, isSaving, inflight, server,
          saveOutcome, lastSaved, unnotified, pasting, content

vars == <<nodes, edges, nextId, nextEdgeId, copiedNodes, connection, pendingSelect,
          splitting, timerArmed, isSaving, inflight, server, saveOutcome,
          lastSaved, unnotified, pasting, content>>

graphVars == <<nodes, edges, nextId, nextEdgeId, copiedNodes, connection, pendingSelect,
               splitting, pasting, content>>

\* ------------------------------------------------------------ helpers
Range(s) == {s[i] : i \in 1..Len(s)}

NodeIds(nds) == {n.id : n \in Range(nds)}

getNode(nds, id) == IF id \in NodeIds(nds)
                    THEN CHOOSE n \in Range(nds) : n.id = id
                    ELSE [id |-> NoId, type |-> "none", position |-> Origin,
                          data |-> "none", selected |-> FALSE]

toObject == [nodes |-> nodes, edges |-> edges]

\* ------------------------------------------------- connection validator
\* the kind-compatibility predicate of the node-kind registry: an audio node
\* feeds transcribe nodes only
isValidSourceTarget(source, target) ==
    source.type = "audio" => target.type = "transcribe"

getOutgoers(node, nds, eds) ==
    SelectSeq(nds, LAMBDA n :
        \E e \in Range(eds) : e.source = node.id /\ e.target = n.id)

RECURSIVE hasCycleVisit(_, _, _, _, _)
RECURSIVE hasCycleLoop(_, _, _, _, _)

\* the for-loop of hasCycle over the outgoers of one node; the visited set
\* is shared by the whole traversal, so it is threaded through the result
hasCycleLoop(outs, visited, source, nds, eds) ==
    IF outs = <<>> THEN [found |-> FALSE, visited |-> visited]
    ELSE IF Head(outs).id = source THEN [found |-> TRUE, visited |-> visited]
    ELSE LET r == hasCycleVisit(Head(outs), visited, source, nds, eds)
         IN IF r.found THEN r
            ELSE hasCycleLoop(Tail(outs), r.visited, source, nds, eds)

hasCycleVisit(node, visited, source, nds, eds) ==
    IF node.id \in visited THEN [found |-> FALSE, visited |-> visited]
    ELSE hasCycleLoop(getOutgoers(node, nds, eds), visited \cup {node.id},
                      source, nds, eds)

hasCycleNoRecursion(target, source, nds, eds) ==
    \E o \in Range(getOutgoers(target, nds, eds)) : o.id = source

\* the traversal also runs from the source towards the target
hasCycleEitherWay(target, source, nds, eds) ==
    \/ hasCycleVisit(target, {}, source, nds, eds).found
    \/ hasCycleVisit(getNode(nds, source), {}, target.id, nds, eds).found

hasCycle(target, source, nds, eds) ==
    hasCycleVisit(target, {}, source, nds, eds).found

isValidConnectionNoSelfCheck(nds, eds, source, target) ==
    LET found == target \in NodeIds(nds)
        t == getNode(nds, target)
        s == getNode(nds, source)
    IN IF source # NoId /\ (source \notin NodeIds(nds) \/ ~found) THEN FALSE
       ELSE IF source # NoId /\ ~isValidSourceTarget(s, t) THEN FALSE
       ELSE IF ~found THEN FALSE
       ELSE ~hasCycle(t, source, nds, eds)

isValidConnectionNoCycleCheck(nds, eds, source, target) ==
    LET found == target \in NodeIds(nds)
        t == getNode(nds, target)
        s == getNode(nds, source)
    IN IF source # NoId /\ (source \notin NodeIds(nds) \/ ~found) THEN FALSE
       ELSE IF source # NoId /\ ~isValidSourceTarget(s, t) THEN FALSE
       ELSE IF ~found \/ t.id = source THEN FALSE
       ELSE TRUE

isValidConnectionNoKindCheck(nds, eds, source, target) ==
    LET found == target \in NodeIds(nds)
        t == getNode(nds, target)
    IN IF source # NoId /\ (source \notin NodeIds(nds) \/ ~found) THEN FALSE
       ELSE IF ~found \/ t.id = source THEN FALSE
       ELSE ~hasCycle(t, source, nds, eds)

isValidConnection(nds, eds, source, target) ==
    LET found == target \in NodeIds(nds)
        t == getNode(nds, target)
        s == getNode(nds, source)
    IN IF source # NoId /\ (source \notin NodeIds(nds) \/ ~found) THEN FALSE
       ELSE IF source # NoId /\ ~isValidSourceTarget(s, t) THEN FALSE
       ELSE IF ~found \/ t.id = source THEN FALSE
       ELSE ~hasCycle(t, source, nds, eds)

\* ---------------------------------------------------------------- store
newNode(id, type, position, data, selected) ==
    [id |-> id, type |-> type, position |-> position, data |-> data,
     selected |-> selected]

\* the id of an edge is made of its endpoints
newEdgeIdFromEndpoints(id, source, target, type) ==
    [id |-> <<"edge", source, target>>, source |-> source, target |-> target,
     type |-> type]

newEdge(id, source, target, type) ==
    [id |-> id, source |-> source, target |-> target, type |-> type]

\* a change of a change set; fields a change type does not use are blank
removeChange(id) == [type |-> "remove", id |-> id, selected |-> FALSE]
selectChange(id, selected) == [type |-> "select", id |-> id, selected |-> selected]

applyChange(change, current) ==
    IF change.type = "remove"
    THEN SelectSeq(current, LAMBDA item : item.id # change.id)
    ELSE [i \in 1..Len(current) |->
            IF current[i].id = change.id
            THEN [current[i] EXCEPT !.selected = change.selected]
            ELSE current[i]]

RECURSIVE applyNodeChanges(_, _)
applyNodeChanges(changes, current) ==
    IF changes = <<>> THEN current
    ELSE applyNodeChanges(Tail(changes), applyChange(Head(changes), current))

RECURSIVE applyEdgeChanges(_, _)
applyEdgeChanges(changes, current) ==
    IF changes = <<>> THEN current
    ELSE applyEdgeChanges(Tail(changes),
             SelectSeq(current, LAMBDA e : e.id # Head(changes).id))

\* updateNode(id, {selected}) of the flow instance, as applied to the store
updateNode(nds, id, selected) ==
    applyNodeChanges(<<selectChange(id, selected)>>, nds)

\* the vertical offset is left out
shiftXOnly(position, dx, dy) == [x |-> position.x + dx, y |-> position.y]

shift(position, dx, dy) == [x |-> position.x + dx, y |-> position.y + dy]

\* a field of the persisted object: there with a value, or not there
NoField == [defined |-> FALSE, value |-> <<>>]
field(value) == [defined |-> TRUE, value |-> value]

\* project.content: null for a project that was never saved, else an object
NullContent == [isNull |-> TRUE, nodes |-> NoField, edges |-> NoField]
object(nds, eds) == [isNull |-> FALSE, nodes |-> nds, edges |-> eds]

\* initialNodes ?? content?.nodes ?? [] where the page passes no initialNodes
initialNodes(c) ==
    IF ~c.isNull /\ c.nodes.defined THEN c.nodes.value ELSE <<>>

\* initialEdges ?? content?.edges ?? [] where the page passes no initialEdges
initialEdges(c) ==
    IF ~c.isNull /\ c.edges.defined THEN c.edges.value ELSE <<>>

\* the ids the session that wrote the snapshot has used: the ones nanoid
\* gives out in this session differ from them
usedIds(c) ==
    NodeIds(c.nodes.value)
        \cup {e.source : e \in Range(c.edges.value)}
        \cup {e.target : e \in Range(c.edges.value)}

\* the state of Canvas when it is mounted on a project whose content is c
Opened(c) ==
    /\ content = c
    /\ nodes = initialNodes(c)
    /\ edges = initialEdges(c)
    /\ nextId = 1 + Cardinality(usedIds(c))
    /\ nextEdgeId = 1 + Len(c.edges.value)
    /\ copiedNodes = <<>>
    /\ connection = NoDrag
    /\ pendingSelect = <<>>
    /\ splitting = NoSplit
    /\ timerArmed = FALSE
    /\ isSaving = FALSE
    /\ inflight = <<>>
    /\ server = [nodes |-> initialNodes(c), edges |-> initialEdges(c)]
    /\ saveOutcome = "none"
    /\ lastSaved = 0
    /\ unnotified = FALSE
    /\ pasting = pasteEnded("none")

\* a project that was never saved is opened
Init == Opened(NullContent)

\* a node and an edge as an earlier session saved them
savedNode(id) == newNode(id, "image", Origin, "none", FALSE)
savedEdge(id, source, target) ==
    newEdge(<<"nanoid", id, 0>>, source, target, "animated")

\* the contents a project is opened with: none, an object without fields,
\* an empty graph, a graph of two linked nodes, the same graph with the
\* edges field lost, and the same graph with the second node lost
ProjectContents ==
    { NullContent,
      object(NoField, NoField),
      object(field(<<>>), field(<<>>)),
      object(field(<<savedNode(1), savedNode(2)>>),
             field(<<savedEdge(1, 1, 2)>>)),
      object(field(<<savedNode(1), savedNode(2)>>), NoField),
      object(field(<<savedNode(1)>>), field(<<savedEdge(1, 1, 2)>>)) }

OpenInit == \E c \in ProjectContents : Opened(c)

saveVarsKept == UNCHANGED <<isSaving, inflight, server, saveOutcome, lastSaved>>

\* the user can start a gesture on the canvas: no connection drag is under
\* way, and the zero-delay timeout of an earlier duplicateNode has run
idle == ~connection.active /\ pendingSelect = <<>>

canAdd(L, n) == nextId + n - 1 <= L.ids /\ Len(nodes) + n <= L.nodes

\* ------------------------------------------------------ store handlers
\* delete key on a node: the flow component reports the removal of the
\* connected edges to onEdgesChange and of the node to onNodesChange
RemoveNode ==
    /\ idle
    /\ \E n \in Range(nodes) :
         LET connected == SelectSeq(edges, LAMBDA e :
                              e.source = n.id \/ e.target = n.id)
         IN /\ edges' = applyEdgeChanges(
                  [i \in 1..Len(connected) |-> removeChange(connected[i].id)],
                  edges)
            /\ nodes' = applyNodeChanges(<<removeChange(n.id)>>, nodes)
    /\ timerArmed' = TRUE
    /\ unnotified' = FALSE
    /\ UNCHANGED <<nextId, nextEdgeId, copiedNodes, connection, pendingSelect, splitting>>
    /\ saveVarsKept
    /\ UNCHANGED content
    /\ UNCHANGED pasting

\* onEdgesChange: removal of one edge
HandleEdgesChange ==
    /\ idle
    /\ \E e \in Range(edges) :
         edges' = applyEdgeChanges(<<removeChange(e.id)>>, edges)
    /\ timerArmed' = TRUE
    /\ unnotified' = FALSE
    /\ UNCHANGED <<nodes, nextId, nextEdgeId, copiedNodes, connection, pendingSelect,
                   splitting>>
    /\ saveVarsKept
    /\ UNCHANGED content
    /\ UNCHANGED pasting

\* ------------------------------------------------------ node operations
\* the new node takes the selection from the nodes there are
AddNodeDeselects(L) ==
    /\ idle
    /\ canAdd(L, 1)
    /\ \E type \in Kinds :
         nodes' = Append([i \in 1..Len(nodes) |->
                             [nodes[i] EXCEPT !.selected = FALSE]],
                         newNode(nextId, type, Origin, "none", FALSE))
    /\ nextId' = nextId + 1
    /\ timerArmed' = TRUE
    /\ unnotified' = FALSE
    /\ UNCHANGED <<edges, nextEdgeId, copiedNodes, connection, pendingSelect, splitting>>
    /\ saveVarsKept
    /\ UNCHANGED content
    /\ UNCHANGED pasting

AddNode(L) ==
    /\ idle
    /\ canAdd(L, 1)
    /\ \E type \in Kinds :
         nodes' = Append(nodes, newNode(nextId, type, Origin, "none", FALSE))
    /\ nextId' = nextId + 1
    /\ timerArmed' = TRUE
    /\ unnotified' = FALSE
    /\ UNCHANGED <<edges, nextEdgeId, copiedNodes, connection, pendingSelect, splitting>>
    /\ saveVarsKept
    /\ UNCHANGED content
    /\ UNCHANGED pasting

\* double click on the pane or "Add a new node" of the context menu
AddDropNode(L) ==
    /\ idle
    /\ canAdd(L, 1)
    /\ nodes' = Append(nodes, newNode(nextId, "drop", Origin, "none", FALSE))
    /\ nextId' = nextId + 1
    /\ timerArmed' = TRUE
    /\ unnotified' = FALSE
    /\ UNCHANGED <<edges, nextEdgeId, copiedNodes, connection, pendingSelect, splitting>>
    /\ saveVarsKept
    /\ UNCHANGED content
    /\ UNCHANGED pasting

DuplicateNode(L) ==
    /\ idle
    /\ canAdd(L, 1)
    /\ \E n \in Range(nodes) :
         /\ nodes' = Append(nodes,
               newNode(nextId, n.type,
                       shift(n.position, DuplicateOffset, DuplicateOffset),
                       n.data, TRUE))
         /\ pendingSelect' = Append(pendingSelect, <<n.id, nextId>>)
    /\ nextId' = nextId + 1
    /\ timerArmed' = TRUE
    /\ unnotified' = FALSE
    /\ UNCHANGED <<edges, nextEdgeId, copiedNodes, connection, splitting>>
    /\ saveVarsKept
    /\ UNCHANGED content
    /\ UNCHANGED pasting

\* the setTimeout(0) callback of duplicateNode: two updateNode calls, each
\* reported to onNodesChange when it changes a node
DuplicateTimeout ==
    /\ pendingSelect # <<>>
    /\ LET old == Head(pendingSelect)[1]
           new == Head(pendingSelect)[2]
       IN /\ nodes' = updateNode(updateNode(nodes, old, FALSE), new, TRUE)
          /\ timerArmed' = (timerArmed \/ old \in NodeIds(nodes)
                                       \/ new \in NodeIds(nodes))
          /\ unnotified' = (unnotified /\ old \notin NodeIds(nodes)
                                        /\ new \notin NodeIds(nodes))
    /\ pendingSelect' = Tail(pendingSelect)
    /\ UNCHANGED <<edges, nextId, nextEdgeId, copiedNodes, connection, splitting>>
    /\ saveVarsKept
    /\ UNCHANGED content
    /\ UNCHANGED pasting

HandleSelectAll ==
    /\ idle
    /\ nodes # <<>>
    /\ nodes' = [i \in 1..Len(nodes) |-> [nodes[i] EXCEPT !.selected = TRUE]]
    /\ UNCHANGED <<edges, nextId, nextEdgeId, copiedNodes, connection, pendingSelect,
                   splitting, timerArmed>>
    /\ unnotified' = TRUE
    /\ saveVarsKept
    /\ UNCHANGED content
    /\ UNCHANGED pasting

HandleCopy(L) ==
    /\ idle
    /\ LET selectedNodes == SelectSeq(nodes, LAMBDA n : n.selected)
       IN /\ Len(selectedNodes) > 0
          /\ Len(selectedNodes) <= L.copied
          /\ copiedNodes' = selectedNodes
    /\ UNCHANGED <<nodes, edges, nextId, nextEdgeId, connection, pendingSelect, splitting,
                   timerArmed, unnotified>>
    /\ saveVarsKept
    /\ UNCHANGED content
    /\ UNCHANGED pasting

\* the nodes there were keep their selection
pastedNodesKeepSelection(nds, copied, id) ==
    nds \o [i \in 1..Len(copied) |->
              [copied[i] EXCEPT
                  !.id = id + i - 1,
                  !.position = shift(@, DuplicateOffset, DuplicateOffset),
                  !.selected = TRUE]]

\* the nodes after the copied nodes were pasted: the nodes there were, all
\* deselected, then the copies
pastedNodes(nds, copied, id) ==
    [i \in 1..Len(nds) |-> [nds[i] EXCEPT !.selected = FALSE]]
    \o [i \in 1..Len(copied) |->
          [copied[i] EXCEPT
              !.id = id + i - 1,
              !.position = shift(@, DuplicateOffset, DuplicateOffset),
              !.selected = TRUE]]

\* the nodes after handlePasteImage added the uploaded image
imagePasted(nds, id) ==
    Append(nds, newNode(id, "image", ViewportCenter, "content", FALSE))

\* what a paste through the keyboard shortcut makes of the nodes when every
\* await of it resolves: the image of the clipboard if it holds one, else the
\* copied nodes if there are any, else nothing
handlePasteResult(clipboard, nds, copied, id) ==
    IF clipboard = "image" THEN imagePasted(nds, id)
    ELSE IF Len(copied) = 0 THEN nds
    ELSE pastedNodes(nds, copied, id)

\* the same for a paste that arrives as a paste event of the document
handlePasteEventResult(clipboard, nds, copied, id) ==
    IF clipboard = "image" THEN imagePasted(nds, id)
    ELSE nds

\* meta+v where the Clipboard API is not available: handlePaste goes to the
\* copied nodes at once
HandlePaste(L) ==
    /\ idle
    /\ Len(copiedNodes) # 0
    /\ canAdd(L, Len(copiedNodes))
    /\ nodes' = pastedNodes(nodes, copiedNodes, nextId)
    /\ nextId' = nextId + Len(copiedNodes)
    /\ UNCHANGED <<edges, nextEdgeId, copiedNodes, connection, pendingSelect, splitting,
                   timerArmed>>
    /\ unnotified' = TRUE
    /\ saveVarsKept
    /\ UNCHANGED content
    /\ UNCHANGED pasting

\* paste of an image of the system clipboard whose awaits resolve before
\* anything else happens: upload, then addNode('image')
HandlePasteImage(L) ==
    /\ idle
    /\ canAdd(L, 1)
    /\ nodes' = imagePasted(nodes, nextId)
    /\ nextId' = nextId + 1
    /\ timerArmed' = TRUE
    /\ unnotified' = FALSE
    /\ UNCHANGED <<edges, nextEdgeId, copiedNodes, connection, pendingSelect, splitting>>
    /\ saveVarsKept
    /\ UNCHANGED content
    /\ UNCHANGED pasting

\* ------------------------------------------------- paste, await by await
\* meta+v: handlePaste up to navigator.clipboard.read(); the closure holds
\* the copiedNodes of the render the key was pressed in
PasteHotkey ==
    /\ idle
    /\ pasting.stage = "none"
    /\ pasting' = [stage |-> "read", entry |-> "key", copied |-> copiedNodes,
                   error |-> "none"]
    /\ UNCHANGED <<nodes, edges, nextId, nextEdgeId, copiedNodes, connection,
                   pendingSelect, splitting, timerArmed, unnotified>>
    /\ saveVarsKept
    /\ UNCHANGED content

\* the rest of handlePaste after its try block: the copied nodes, if any
pasteCopied(L, copied) ==
    /\ canAdd(L, Len(copied))
    /\ nodes' = handlePasteResult("other", nodes, copied, nextId)
    /\ nextId' = nextId + Len(copied)
    /\ unnotified' = (unnotified \/ Len(copied) # 0)
    /\ UNCHANGED <<edges, nextEdgeId, copiedNodes, connection, pendingSelect,
                   splitting, timerArmed>>
    /\ saveVarsKept
    /\ UNCHANGED content

\* clipboard.read() resolved with an image item: handlePasteImage starts the
\* upload
ClipboardReadImage ==
    /\ pasting.stage = "read"
    /\ pasting' = [pasting EXCEPT !.stage = "upload"]
    /\ UNCHANGED <<nodes, edges, nextId, nextEdgeId, copiedNodes, connection,
                   pendingSelect, splitting, timerArmed, unnotified>>
    /\ saveVarsKept
    /\ UNCHANGED content

\* clipboard.read() resolved with no image item
ClipboardReadOther(L) ==
    /\ pasting.stage = "read"
    /\ pasteCopied(L, pasting.copied)
    /\ pasting' = pasteEnded("none")

\* the catch returns: nothing is pasted after a rejected read
ClipboardReadFailsReturns(L) ==
    /\ pasting.stage = "read"
    /\ pasting' = pasteEnded("read")
    /\ UNCHANGED <<nodes, edges, nextId, nextEdgeId, copiedNodes, connection,
                   pendingSelect, splitting, timerArmed, unnotified>>
    /\ saveVarsKept
    /\ UNCHANGED content

\* clipboard.read() rejected (permission denied): the catch logs the error
\* and handlePaste goes on
ClipboardReadFails(L) ==
    /\ pasting.stage = "read"
    /\ pasteCopied(L, pasting.copied)
    /\ pasting' = pasteEnded("read")

\* a paste event of the document that carries an image item: handlePasteImage
\* starts the upload
HandlePasteEvent ==
    /\ idle
    /\ pasting.stage = "none"
    /\ pasting' = [stage |-> "upload", entry |-> "event", copied |-> <<>>,
                   error |-> "none"]
    /\ UNCHANGED <<nodes, edges, nextId, nextEdgeId, copiedNodes, connection,
                   pendingSelect, splitting, timerArmed, unnotified>>
    /\ saveVarsKept
    /\ UNCHANGED content

\* handlePaste would go on to the copied nodes after the image
PasteImageUploadedNoReturn(L) ==
    /\ pasting.stage = "upload"
    /\ canAdd(L, 1 + Len(pasting.copied))
    /\ nodes' = handlePasteResult("other", imagePasted(nodes, nextId),
                                  pasting.copied, nextId + 1)
    /\ nextId' = nextId + 1 + Len(pasting.copied)
    /\ timerArmed' = TRUE
    /\ unnotified' = (Len(pasting.copied) # 0)
    /\ pasting' = pasteEnded("none")
    /\ UNCHANGED <<edges, nextEdgeId, copiedNodes, connection, pendingSelect, splitting>>
    /\ saveVarsKept
    /\ UNCHANGED content

\* uploadFile resolved: the rest of handlePasteImage, and the return of the
\* entry point that called it
PasteImageUploaded(L) ==
    /\ pasting.stage = "upload"
    /\ canAdd(L, 1)
    /\ nodes' = handlePasteResult("image", nodes, pasting.copied, nextId)
    /\ nextId' = nextId + 1
    /\ timerArmed' = TRUE
    /\ unnotified' = FALSE
    /\ pasting' = pasteEnded("none")
    /\ UNCHANGED <<edges, nextEdgeId, copiedNodes, connection, pendingSelect, splitting>>
    /\ saveVarsKept
    /\ UNCHANGED content

\* uploadFile rejected: handlePasteImage rejects; under handlePaste the
\* rejection lands in the catch around the clipboard read and handlePaste goes
\* on, under handlePasteEvent nothing catches it
PasteImageUploadFails(L) ==
    /\ pasting.stage = "upload"
    /\ IF pasting.entry = "key"
       THEN /\ pasteCopied(L, pasting.copied)
            /\ pasting' = pasteEnded("upload")
       ELSE /\ pasting' = pasteEnded("unhandled")
            /\ UNCHANGED <<nodes, edges, nextId, nextEdgeId, copiedNodes,
                           connection, pendingSelect, splitting, timerArmed,
                           unnotified>>
            /\ saveVarsKept
            /\ UNCHANGED content

\* ------------------------------------------------------ connection drag
\* the handler only calls save: placeholders and temporary edges stay
HandleConnectStartKeepsTemporary(L) ==
    /\ idle
    /\ nextId <= L.ids
    /\ nextEdgeId <= L.edgeIds
    /\ Len(nodes) < L.nodes
    /\ Len(edges) < L.edges
    /\ \E n \in Range(nodes), isSourceHandle \in BOOLEAN :
         /\ n.type # "drop"
         /\ connection' = [active |-> TRUE, from |-> n.id,
                           isSourceHandle |-> isSourceHandle]
    /\ timerArmed' = TRUE
    /\ unnotified' = FALSE
    /\ UNCHANGED <<nodes, edges, nextId, nextEdgeId, copiedNodes, pendingSelect,
                   splitting>>
    /\ saveVarsKept
    /\ UNCHANGED content
    /\ UNCHANGED pasting

\* the filter of the edges is left out
HandleConnectStartKeepsEdges(L) ==
    /\ idle
    /\ LET kept == SelectSeq(nodes, LAMBDA n : n.type # "drop")
       IN /\ nextId <= L.ids
          /\ nextEdgeId <= L.edgeIds
          /\ Len(kept) < L.nodes
          /\ Len(edges) < L.edges
          /\ nodes' = kept
    /\ \E n \in Range(nodes), isSourceHandle \in BOOLEAN :
         /\ n.type # "drop"
         /\ connection' = [active |-> TRUE, from |-> n.id,
                           isSourceHandle |-> isSourceHandle]
    /\ timerArmed' = TRUE
    /\ unnotified' = FALSE
    /\ UNCHANGED <<edges, nextId, nextEdgeId, copiedNodes, pendingSelect, splitting>>
    /\ saveVarsKept
    /\ UNCHANGED content
    /\ UNCHANGED pasting

\* pointer down on a handle of a node; the placeholder renders no handle
HandleConnectStart(L) ==
    /\ idle
    /\ LET kept == SelectSeq(nodes, LAMBDA n : n.type # "drop")
           keptEdges == SelectSeq(edges, LAMBDA e : e.type # "temporary")
       IN /\ nextId <= L.ids
          /\ nextEdgeId <= L.edgeIds
          /\ Len(kept) < L.nodes
          /\ Len(keptEdges) < L.edges
          /\ nodes' = kept
          /\ edges' = keptEdges
    /\ \E n \in Range(nodes), isSourceHandle \in BOOLEAN :
         /\ n.type # "drop"
         /\ connection' = [active |-> TRUE, from |-> n.id,
                           isSourceHandle |-> isSourceHandle]
    /\ timerArmed' = TRUE
    /\ unnotified' = FALSE
    /\ UNCHANGED <<nextId, nextEdgeId, copiedNodes, pendingSelect, splitting>>
    /\ saveVarsKept
    /\ UNCHANGED content
    /\ UNCHANGED pasting

\* the temporary edge always leaves the node the drag started from
connectEndInvalidFromSource ==
    IF connection.from \notin NodeIds(nodes)
    THEN UNCHANGED <<nodes, edges, nextId, nextEdgeId, timerArmed, unnotified>>
    ELSE /\ nodes' = Append(nodes,
                newNode(nextId, "drop", PointerPosition,
                        IF connection.isSourceHandle THEN "isSource:false"
                                                     ELSE "isSource:true",
                        FALSE))
         /\ edges' = Append(edges,
                newEdge(<<"nanoid", nextEdgeId, 0>>, connection.from, nextId,
                        "temporary"))
         /\ nextId' = nextId + 1
         /\ nextEdgeId' = nextEdgeId + 1
         /\ timerArmed' = TRUE
         /\ unnotified' = FALSE

\* handleConnectEnd with connectionState.isValid false
connectEndInvalid ==
    IF connection.from \notin NodeIds(nodes)
    THEN UNCHANGED <<nodes, edges, nextId, nextEdgeId, timerArmed, unnotified>>
    ELSE /\ nodes' = Append(nodes,
                newNode(nextId, "drop", PointerPosition,
                        IF connection.isSourceHandle THEN "isSource:false"
                                                     ELSE "isSource:true",
                        FALSE))
         /\ edges' = Append(edges,
                newEdge(<<"nanoid", nextEdgeId, 0>>,
                        IF connection.isSourceHandle THEN connection.from
                                                     ELSE nextId,
                        IF connection.isSourceHandle THEN nextId
                                                     ELSE connection.from,
                        "temporary"))
         /\ nextId' = nextId + 1
         /\ nextEdgeId' = nextEdgeId + 1
         /\ timerArmed' = TRUE
         /\ unnotified' = FALSE

\* handleConnectEnd does not look at connectionState.isValid
HandleConnectEndIgnoresValid ==
    /\ connection.active
    /\ \E n \in Range(nodes) :
         LET source == IF connection.isSourceHandle THEN connection.from
                                                    ELSE n.id
             target == IF connection.isSourceHandle THEN n.id
                                                    ELSE connection.from
         IN /\ n.type # "drop"
            /\ IF isValidConnection(nodes, edges, source, target)
               THEN /\ nodes' = Append(nodes,
                          newNode(nextId, "drop", PointerPosition,
                                  "isSource:false", FALSE))
                    /\ edges' = edges
                          \o <<newEdge(<<"nanoid", nextEdgeId, 0>>, source,
                                       target, "animated"),
                               newEdge(<<"nanoid", nextEdgeId, 1>>,
                                       connection.from, nextId, "temporary")>>
                    /\ nextId' = nextId + 1
                    /\ nextEdgeId' = nextEdgeId + 1
                    /\ timerArmed' = TRUE
                    /\ unnotified' = FALSE
               ELSE connectEndInvalid
    /\ connection' = NoDrag
    /\ UNCHANGED <<copiedNodes, pendingSelect, splitting>>
    /\ saveVarsKept
    /\ UNCHANGED content
    /\ UNCHANGED pasting

\* pointer up over a handle of node n: the flow component asks
\* isValidConnection and calls onConnect only for a valid connection, then
\* onConnectEnd in both cases
HandleConnect ==
    /\ connection.active
    /\ \E n \in Range(nodes) :
         LET source == IF connection.isSourceHandle THEN connection.from
                                                    ELSE n.id
             target == IF connection.isSourceHandle THEN n.id
                                                    ELSE connection.from
         IN /\ n.type # "drop"
            /\ IF isValidConnection(nodes, edges, source, target)
               THEN /\ edges' = Append(edges,
                          newEdge(<<"nanoid", nextEdgeId, 0>>, source, target,
                                  "animated"))
                    /\ nextEdgeId' = nextEdgeId + 1
                    /\ timerArmed' = TRUE
                    /\ unnotified' = FALSE
                    /\ UNCHANGED <<nodes, nextId>>
               ELSE connectEndInvalid
    /\ connection' = NoDrag
    /\ UNCHANGED <<copiedNodes, pendingSelect, splitting>>
    /\ saveVarsKept
    /\ UNCHANGED content
    /\ UNCHANGED pasting

\* pointer up over the empty pane
HandleConnectEnd ==
    /\ connection.active
    /\ connectEndInvalid
    /\ connection' = NoDrag
    /\ UNCHANGED <<copiedNodes, pendingSelect, splitting>>
    /\ saveVarsKept
    /\ UNCHANGED content
    /\ UNCHANGED pasting

\* ------------------------------------------------------- derived nodes
\* VariationsDropdown / FormatSelector: addNode, addEdges, updateNode
HandleCreateVariation(L) ==
    /\ idle
    /\ canAdd(L, 1)
    /\ Len(edges) < L.edges
    /\ \E n \in Range(nodes) :
         /\ n.type = "image"
         /\ nodes' = updateNode(
               Append(nodes,
                  newNode(nextId, "image",
                          shift(n.position, MeasuredWidth + 100, 0),
                          "variation", TRUE)),
               n.id, FALSE)
         /\ edges' = Append(edges,
               newEdge(<<"edge", n.id, nextId>>, n.id, nextId, "animated"))
    /\ nextId' = nextId + 1
    /\ timerArmed' = TRUE
    /\ unnotified' = FALSE
    /\ UNCHANGED <<nextEdgeId, copiedNodes, connection, pendingSelect, splitting>>
    /\ saveVarsKept
    /\ UNCHANGED content
    /\ UNCHANGED pasting

\* handleSplit up to its first await: the node is looked up once
HandleSplit ==
    /\ idle
    /\ ~splitting.active
    /\ \E n \in Range(nodes) :
         /\ n.type = "image"
         /\ splitting' = [active |-> TRUE, id |-> n.id,
                          position |-> n.position, done |-> 0]
    /\ UNCHANGED <<nodes, edges, nextId, nextEdgeId, copiedNodes, connection,
                   pendingSelect, timerArmed, unnotified>>
    /\ saveVarsKept
    /\ UNCHANGED content
    /\ UNCHANGED pasting

\* one pass of the loop of handleSplit after its upload resolved; the last
\* pass also deselects the split node and clears the splitting flag
SplitUploaded(L) ==
    /\ splitting.active
    /\ canAdd(L, 1)
    /\ Len(edges) < L.edges
    /\ LET i == splitting.done
           last == (i + 1 = SplitCount)
           added == Append(nodes,
               newNode(nextId, "image",
                   [x |-> splitting.position.x + MeasuredWidth + SplitSpacing
                            + (i % SplitCols) * (MeasuredWidth + SplitSpacing),
                    y |-> splitting.position.y - (MeasuredHeight * 12) \div 10
                            + (i \div SplitCols) * (MeasuredHeight + SplitSpacing)],
                   "generated", FALSE))
       IN /\ nodes' = IF last THEN updateNode(added, splitting.id, FALSE)
                      ELSE added
          /\ edges' = Append(edges,
                newEdge(<<"edge", splitting.id, nextId>>, splitting.id,
                        nextId, "animated"))
          /\ splitting' = IF last THEN NoSplit
                          ELSE [splitting EXCEPT !.done = i + 1]
    /\ nextId' = nextId + 1
    /\ timerArmed' = TRUE
    /\ unnotified' = FALSE
    /\ UNCHANGED <<nextEdgeId, copiedNodes, connection, pendingSelect>>
    /\ saveVarsKept
    /\ UNCHANGED content
    /\ UNCHANGED pasting

\* splitGridImage or uploadFile rejected: catch and finally of handleSplit
SplitFailed ==
    /\ splitting.active
    /\ splitting' = NoSplit
    /\ UNCHANGED <<nodes, edges, nextId, nextEdgeId, copiedNodes, connection,
                   pendingSelect, timerArmed, unnotified>>
    /\ saveVarsKept
    /\ UNCHANGED content
    /\ UNCHANGED pasting

\* --------------------------------------------------------- persistence
\* the debounce timer fires: the body of the debounced save callback up to
\* its await
saveNoGuard ==
    /\ isSaving' = TRUE
    /\ inflight' = Append(inflight, toObject)

\* the request carries the content the project was opened with
saveProjectContent ==
    IF isSaving
    THEN UNCHANGED <<isSaving, inflight>>
    ELSE /\ isSaving' = TRUE
         /\ inflight' = Append(inflight, [nodes |-> <<>>, edges |-> <<>>])

save ==
    IF isSaving
    THEN UNCHANGED <<isSaving, inflight>>
    ELSE /\ isSaving' = TRUE
         /\ inflight' = Append(inflight, toObject)

TimerFires ==
    /\ timerArmed
    /\ timerArmed' = FALSE
    /\ save
    /\ UNCHANGED <<server, saveOutcome, lastSaved, unnotified>>
    /\ UNCHANGED graphVars

\* updateProjectAction resolved: the rest of the callback
SaveSucceeds ==
    /\ inflight # <<>>
    /\ lastSaved < MaxSaved
    /\ server' = Head(inflight)
    /\ inflight' = Tail(inflight)
    /\ saveOutcome' = "saved"
    /\ lastSaved' = lastSaved + 1
    /\ isSaving' = FALSE
    /\ UNCHANGED <<timerArmed, unnotified>>
    /\ UNCHANGED graphVars

\* the catch puts the graph back to what was written last
SaveFailsRestores ==
    /\ inflight # <<>>
    /\ inflight' = Tail(inflight)
    /\ saveOutcome' = "error"
    /\ isSaving' = FALSE
    /\ nodes' = server.nodes
    /\ edges' = server.edges
    /\ UNCHANGED <<timerArmed, server, lastSaved, unnotified>>
    /\ UNCHANGED <<nextId, nextEdgeId, copiedNodes, connection, pendingSelect,
                   splitting, pasting, content>>

\* the failed attempt stamps lastSaved as a successful one does
SaveFailsStamps ==
    /\ inflight # <<>>
    /\ lastSaved < MaxSaved
    /\ inflight' = Tail(inflight)
    /\ saveOutcome' = "error"
    /\ lastSaved' = lastSaved + 1
    /\ isSaving' = FALSE
    /\ UNCHANGED <<timerArmed, server, unnotified>>
    /\ UNCHANGED graphVars

\* the finally block is missing: the flag stays set after a failure
SaveFailsKeepsFlag ==
    /\ inflight # <<>>
    /\ inflight' = Tail(inflight)
    /\ saveOutcome' = "error"
    /\ UNCHANGED <<isSaving, timerArmed, server, lastSaved, unnotified>>
    /\ UNCHANGED graphVars

\* updateProjectAction returned an error or threw: catch and finally
SaveFails ==
    /\ inflight # <<>>
    /\ inflight' = Tail(inflight)
    /\ saveOutcome' = "error"
    /\ isSaving' = FALSE
    /\ UNCHANGED <<timerArmed, server, lastSaved, unnotified>>
    /\ UNCHANGED graphVars

\* the gestures and callbacks that edit the graph, within the limits L, but
\* for the paste of a clipboard image
Gestures(L) ==
    \/ RemoveNode
    \/ HandleEdgesChange
    \/ AddNode(L)
    \/ AddDropNode(L)
    \/ DuplicateNode(L)
    \/ DuplicateTimeout
    \/ HandleSelectAll
    \/ HandleCopy(L)
    \/ HandlePaste(L)
    \/ HandleConnectStart(L)
    \/ HandleConnect
    \/ HandleConnectEnd
    \/ HandleCreateVariation(L)
    \/ HandleSplit
    \/ SplitUploaded(L)
    \/ SplitFailed

Edit(L) ==
    \/ Gestures(L)
    \/ HandlePasteImage(L)

Next == Edit(GraphLimits)

Spec == Init /\ [][Next]_vars

\* the gestures on a project opened with any of the contents
OpenNext == Edit(OpenLimits)

OpenSpec == OpenInit /\ [][OpenNext]_vars

SaveNext ==
    \/ Edit(SaveLimits)
    \/ TimerFires
    \/ SaveSucceeds
    \/ SaveFails

SaveSpec == Init /\ [][SaveNext]_vars

\* the paste gesture with its awaits, on a graph of its own size
PasteNext ==
    \/ Gestures(PasteLimits)
    \/ PasteHotkey
    \/ ClipboardReadImage
    \/ ClipboardReadOther(PasteLimits)
    \/ ClipboardReadFails(PasteLimits)
    \/ HandlePasteEvent
    \/ PasteImageUploaded(PasteLimits)
    \/ PasteImageUploadFails(PasteLimits)

PasteSpec == Init /\ [][PasteNext]_vars

\* the gestures that act on the nodes alone, with room for a copy of two
\* nodes and its paste
BatchNext ==
    \/ AddNode(BatchLimits)
    \/ AddDropNode(BatchLimits)
    \/ RemoveNode
    \/ DuplicateNode(BatchLimits)
    \/ DuplicateTimeout
    \/ HandleSelectAll
    \/ HandleCopy(BatchLimits)
    \/ HandlePaste(BatchLimits)

BatchSpec == Init /\ [][BatchNext]_vars

\* ------------------------------------------------------------ properties
PersistentEdges == {e \in Range(edges) : e.type # "temporary"}

TemporaryEdges == {e \in Range(edges) : e.type = "temporary"}

Successors(E, S) == {e.target : e \in {d \in E : d.source \in S}}

RECURSIVE Closure(_, _)
Closure(E, S) ==
    LET T == S \cup Successors(E, S)
    IN IF T = S THEN S ELSE Closure(E, T)

\* a path of one or more edges of E leads from node id a to node id b
PathExists(E, a, b) == b \in Closure(E, Successors(E, {a}))

\* the ids a candidate edge can name: no id, every id handed out so far, and
\* one id that was never handed out
CandidateIds == 0..nextId

\* C1: whenever a path of persistent edges leads from t to s, the validator
\* rejects the candidate edge (s, t); so once A -> B is committed, B -> A is
\* rejected for as long as that edge remains
C1_CyclePrevention ==
    \A s \in CandidateIds, t \in CandidateIds :
        PathExists(PersistentEdges, t, s)
            => ~isValidConnection(nodes, edges, s, t)

\* a candidate between two existing nodes of compatible kinds is rejected
\* only because a path of two or more edges leads back from t to s
C1_Witness ==
    \E s \in Range(nodes), t \in Range(nodes) :
        /\ s.id # t.id
        /\ isValidSourceTarget(s, t)
        /\ PathExists(PersistentEdges, t.id, s.id)
        /\ ~\E e \in PersistentEdges : e.source = t.id /\ e.target = s.id
        /\ ~isValidConnection(nodes, edges, s.id, t.id)

\* C2: the validator rejects every candidate whose source and target are the
\* same node, and every candidate whose target node is not in the graph
C2_RejectsSelfAndAbsentTarget ==
    \A s \in CandidateIds, t \in CandidateIds :
        (s = t \/ t \notin NodeIds(nodes))
            => ~isValidConnection(nodes, edges, s, t)

\* during a drag the pointer is back over the node the drag started from,
\* whose kind is compatible with itself, and elsewhere a candidate names a
\* target that was removed from the graph
C2_Witness ==
    /\ connection.active
    /\ connection.from \in NodeIds(nodes)
    /\ isValidSourceTarget(getNode(nodes, connection.from),
                           getNode(nodes, connection.from))
    /\ \E t \in 1..(nextId - 1) : t \notin NodeIds(nodes)

\* C3: after every mutation no edge is a self-loop and the persistent edges
\* contain no directed cycle
C3_PersistentEdgesAcyclic ==
    /\ \A e \in Range(edges) : e.source # e.target
    /\ \A n \in NodeIds(nodes) : ~PathExists(PersistentEdges, n, n)

\* a connection made by the user closes a path of two persistent edges, next
\* to a node that came from a duplicate or a paste
C3_Witness ==
    /\ \E e \in PersistentEdges, d \in PersistentEdges :
          /\ e.id[1] = "nanoid"
          /\ (e.target = d.source \/ d.target = e.source)
    /\ \E n \in Range(nodes) : n.position.x = DuplicateOffset

\* C4: every edge's source and target are nodes of the graph
C4_EdgesReferenceExistingNodes ==
    \A e \in Range(edges) :
        e.source \in NodeIds(nodes) /\ e.target \in NodeIds(nodes)

\* C5: at most one temporary edge and at most one placeholder node exist
C5_AtMostOnePlaceholder ==
    /\ Cardinality(TemporaryEdges) <= 1
    /\ Cardinality({n \in Range(nodes) : n.type = "drop"}) <= 1

\* C6: no snapshot handed to the persistence collaborator holds a temporary
\* edge
C6_TemporaryEdgesNeverPersisted ==
    \A i \in 1..Len(inflight) :
        \A e \in Range(inflight[i].edges) : e.type # "temporary"

\* C7: every debounce window, which ends when the timer fires, issues
\* exactly one save call, and no save call is issued otherwise
C7_OneSavePerWindow ==
    [][IF timerArmed /\ ~timerArmed'
       THEN Len(inflight') = Len(inflight) + 1
       ELSE Len(inflight') <= Len(inflight)]_vars

\* C8: at most one save request is in flight
C8_AtMostOneSaveInFlight == Len(inflight) <= 1

\* a save is in flight while the graph has moved on and the timer is armed
\* again, so the timer is about to fire during the save
C8_Witness ==
    /\ Len(inflight) = 1
    /\ isSaving
    /\ timerArmed
    /\ inflight[1] # toObject

\* C9: a timer that is armed while a save is in flight stays armed: firing
\* during the save defers the request instead of dropping it
C9_DeferredWhileSaving ==
    [][(timerArmed /\ isSaving) => timerArmed']_vars

\* no gesture, callback, timer or request is outstanding
Quiescent ==
    /\ ~connection.active
    /\ pendingSelect = <<>>
    /\ ~splitting.active
    /\ ~timerArmed
    /\ ~isSaving
    /\ inflight = <<>>

\* C10: once the user has stopped and the last save succeeded, the snapshot
\* written last equals the in-memory graph, for every graph whose last change
\* was reported to the debounced save
C10_EventuallyPersisted ==
    (Quiescent /\ saveOutcome = "saved" /\ ~unnotified) => server = toObject

\* C11: every save request that is issued carries the graph as it is when
\* the timer fires, and the collaborator writes the requests in the order
\* they were issued; so a later request never carries an older graph than an
\* earlier one
C11_SnapshotAtFireTime ==
    [][/\ Len(inflight') > Len(inflight)
           => inflight' = Append(inflight, toObject)
       /\ server' # server => server' = Head(inflight)]_vars

\* the first request is in flight and carries two nodes: the timer was armed
\* by the first of them and re-armed by the second, and the request holds
\* the graph of the moment the timer fired
C11_Witness ==
    /\ saveOutcome = "none"
    /\ Len(inflight) = 1
    /\ Len(inflight[1].nodes) = 2
    /\ inflight[1] = toObject

\* C12: a failed save leaves the nodes and edges as they are and clears the
\* saving flag, so gestures go on, and the next firing of the timer issues a
\* request that carries the graph of that moment
C12_FailedSaveKeepsGraph ==
    [][/\ (Len(inflight') < Len(inflight) /\ saveOutcome' = "error")
           => (nodes' = nodes /\ edges' = edges /\ ~isSaving')
       /\ (saveOutcome = "error" /\ ~isSaving /\ timerArmed /\ ~timerArmed')
           => inflight' = Append(inflight, toObject)]_vars

\* after a failed save the graph differs from what was written last, and the
\* request issued next is in flight with the graph of the moment it was
\* issued
C12_Witness ==
    /\ saveOutcome = "error"
    /\ Len(inflight) = 1
    /\ inflight[1] = toObject
    /\ inflight[1] # server
    /\ nodes # <<>>

\* C13: every step that changes the nodes or the edges calls the debounced
\* save, which leaves the debounce timer armed
C13_EveryMutationNotifies ==
    [][(nodes' # nodes \/ edges' # edges) => timerArmed']_vars

\* C14: duplicateNode adds exactly one node, which has an id no node of the
\* graph has, the kind and data of the original and its position moved by
\* (200, 200); once its zero-delay timeout has run, the new node is selected
\* and the original is not
C14_DuplicateNode ==
    [][/\ Len(pendingSelect') > Len(pendingSelect) =>
            LET old == pendingSelect'[Len(pendingSelect')][1]
                new == pendingSelect'[Len(pendingSelect')][2]
                o == getNode(nodes, old)
                c == nodes'[Len(nodes')]
            IN /\ old \in NodeIds(nodes)
               /\ new \notin NodeIds(nodes)
               /\ nodes' = Append(nodes, c)
               /\ c.id = new
               /\ c.type = o.type
               /\ c.data = o.data
               /\ c.position = [x |-> o.position.x + DuplicateOffset,
                                y |-> o.position.y + DuplicateOffset]
       /\ Len(pendingSelect') < Len(pendingSelect) =>
            LET old == Head(pendingSelect)[1]
                new == Head(pendingSelect)[2]
            IN /\ {old, new} \subseteq NodeIds(nodes')
               /\ getNode(nodes', new).selected
               /\ ~getNode(nodes', old).selected]_vars

\* nothing was ever copied, so no paste happened: a node selected by select
\* all was duplicated, the timeout has run, the copy is selected, the
\* original no longer is, and a third node still is
C14_Witness ==
    /\ copiedNodes = <<>>
    /\ pendingSelect = <<>>
    /\ \E o \in Range(nodes), c \in Range(nodes), b \in Range(nodes) :
          /\ c.id > o.id
          /\ c.type = o.type
          /\ c.data = o.data
          /\ c.position = shift(o.position, DuplicateOffset, DuplicateOffset)
          /\ c.selected
          /\ ~o.selected
          /\ b.id \notin {o.id, c.id}
          /\ b.selected

DropNodes(nds) == {n \in Range(nds) : n.type = "drop"}

\* a connection drag from an existing node ends without a connection
DragAborted ==
    /\ connection.active
    /\ ~connection'.active
    /\ connection.from \in NodeIds(nodes)
    /\ {e \in Range(edges') : e.type # "temporary"} = PersistentEdges

\* a connection drag starts
DragStarted == ~connection.active /\ connection'.active

\* C16 as stated: a drag from X that ends without a connection leaves
\* exactly one placeholder and exactly one temporary edge, which runs from X
\* to the placeholder; the start of a drag leaves no placeholder and no
\* temporary edge
C16_AbortEdgeFromOrigin ==
    [][/\ DragAborted =>
            /\ Cardinality(DropNodes(nodes')) = 1
            /\ Cardinality({e \in Range(edges') : e.type = "temporary"}) = 1
            /\ \A e \in Range(edges') : e.type = "temporary" =>
                   /\ e.source = connection.from
                   /\ e.target \in {n.id : n \in DropNodes(nodes')}
       /\ DragStarted =>
            /\ DropNodes(nodes') = {}
            /\ \A e \in Range(edges') : e.type # "temporary"]_vars

\* C16, amended: the temporary edge links X and the placeholder, from X when
\* the drag started at a source handle and to X when it started at a target
\* handle
C16_AbortEdgeLinksOrigin ==
    [][/\ DragAborted =>
            /\ Cardinality(DropNodes(nodes')) = 1
            /\ Cardinality({e \in Range(edges') : e.type = "temporary"}) = 1
            /\ \A e \in Range(edges') : e.type = "temporary" =>
                   IF connection.isSourceHandle
                   THEN /\ e.source = connection.from
                        /\ e.target \in {n.id : n \in DropNodes(nodes')}
                   ELSE /\ e.target = connection.from
                        /\ e.source \in {n.id : n \in DropNodes(nodes')}
       /\ DragStarted =>
            /\ DropNodes(nodes') = {}
            /\ \A e \in Range(edges') : e.type # "temporary"]_vars

\* a drag that started at a target handle was released over the pane: the
\* one placeholder is the source of the one temporary edge, whose target is
\* the node the drag started from
C16_Witness ==
    /\ ~connection.active
    /\ Cardinality(DropNodes(nodes)) = 1
    /\ Cardinality(TemporaryEdges) = 1
    /\ \E e \in TemporaryEdges, d \in DropNodes(nodes) :
          /\ d.data = "isSource:true"
          /\ e.source = d.id
          /\ e.target \in NodeIds(nodes)
          /\ e.target # d.id

C20_RejectsIncompatibleKinds ==
    \A s \in NodeIds(nodes), t \in NodeIds(nodes) :
        ~isValidSourceTarget(getNode(nodes, s), getNode(nodes, t))
            => ~isValidConnection(nodes, edges, s, t)

\* a candidate between two different nodes that closes no cycle is rejected
\* for its kinds alone, in a graph that has edges
C20_Witness ==
    /\ edges # <<>>
    /\ \E s \in NodeIds(nodes), t \in NodeIds(nodes) :
          /\ ~isValidSourceTarget(getNode(nodes, s), getNode(nodes, t))
          /\ s # t
          /\ ~hasCycle(getNode(nodes, t), s, nodes, edges)
          /\ ~isValidConnection(nodes, edges, s, t)

\* C15: a paste gesture that finds an image on the clipboard changes no node
\* before the upload has resolved, and then adds exactly one node, an image
\* node under a new id; it pastes none of the copied nodes, whether or not
\* there are any
C15_ImageTakesPrecedence ==
    [][/\ (pasting'.stage # "none" /\ pasting' # pasting)
           => (nodes' = nodes /\ edges' = edges)
       /\ (pasting.stage = "upload" /\ pasting' = pasteEnded("none"))
           => /\ Len(nodes') = Len(nodes) + 1
              /\ nodes' = Append(nodes, nodes'[Len(nodes')])
              /\ nodes'[Len(nodes')].type = "image"
              /\ nodes'[Len(nodes')].data = "content"
              /\ nodes'[Len(nodes')].id \notin NodeIds(nodes)
              /\ edges' = edges]_vars

\* a node was copied and a paste has added the image of the clipboard: the
\* graph holds the copied node and the image node, and no copy of the node
C15_Witness ==
    /\ pasting = pasteEnded("none")
    /\ Len(copiedNodes) = 1
    /\ Len(nodes) = 2
    /\ nodes[1].id = copiedNodes[1].id
    /\ nodes[2].type = "image"
    /\ nodes[2].data = "content"
    /\ nodes[2].position = ViewportCenter

\* C18: a paste gesture that ends with a failed clipboard read or a failed
\* upload leaves the nodes and the edges as they were, also when nodes were
\* copied
C18_FailedPasteKeepsGraph ==
    [][(pasting.stage # "none" /\ pasting'.stage = "none"
           /\ pasting'.error # "none")
          => (nodes' = nodes /\ edges' = edges)]_vars

\* C19: for every content of the clipboard, the paste through the keyboard
\* shortcut and the paste through the paste event make the same of the graph
C19_EntryPointsAgree ==
    \A clipboard \in ClipboardContents :
        handlePasteResult(clipboard, nodes, copiedNodes, nextId)
            = handlePasteEventResult(clipboard, nodes, copiedNodes, nextId)

\* C21: the validator accepts every candidate (s, t) between two different
\* nodes of the graph whose kinds are compatible and with no path of edges
\* from t to s: the traversal reports no cycle that is not there
C21_AcceptsWhenNoPath ==
    \A s \in NodeIds(nodes), t \in NodeIds(nodes) :
        (/\ s # t
         /\ isValidSourceTarget(getNode(nodes, s), getNode(nodes, t))
         /\ ~PathExists(Range(edges), t, s))
            => isValidConnection(nodes, edges, s, t)

\* a candidate is accepted although its target has outgoing edges to follow
\* and a path already leads from its source to its target
C21_Witness ==
    \E s \in NodeIds(nodes), t \in NodeIds(nodes) :
        /\ s # t
        /\ PathExists(PersistentEdges, s, t)
        /\ \E e \in PersistentEdges : e.source = t
        /\ isValidConnection(nodes, edges, s, t)

C29_ConnectStartFrame ==
    [][DragStarted =>
          /\ nodes' = SelectSeq(nodes, LAMBDA n : n.type # "drop")
          /\ edges' = SelectSeq(edges, LAMBDA e : e.type # "temporary")
          /\ nextId' = nextId
          /\ copiedNodes' = copiedNodes]_vars

\* a drag is under way in a graph that kept a node away from the origin and
\* a persistent edge, while the one id handed out for a placeholder and the
\* one handed out for a connection edge are no longer in the graph
C29_Witness ==
    /\ connection.active
    /\ \E n \in Range(nodes) : n.position # Origin
    /\ PersistentEdges # {}
    /\ nextEdgeId = 2
    /\ \A e \in Range(edges) : e.id[1] # "nanoid"
    /\ \E id \in 1..(nextId - 1) : id \notin NodeIds(nodes)

\* a connection drag from an existing node ends with a connection
DragConnected ==
    /\ connection.active
    /\ ~connection'.active
    /\ {e \in Range(edges') : e.type # "temporary"} # PersistentEdges

AddNodeCalled ==
    /\ nextId' = nextId + 1
    /\ nextEdgeId' = nextEdgeId
    /\ ~unnotified'
    /\ splitting' = splitting
    /\ Len(edges') <= Len(edges)

\* C25: addNode adds exactly one node, under an id that was never handed
\* out, of the kind asked for, at the position given or at (0, 0) when none
\* is given; the id is the one it returns, and every node there was and every
\* edge is unchanged
C25_AddNodeFrame ==
    [][AddNodeCalled =>
          LET c == nodes'[Len(nodes')]
          IN /\ Len(nodes') = Len(nodes) + 1
             /\ nodes' = Append(nodes, c)
             /\ edges' = edges
             /\ c.id = nextId
             /\ c.id \notin NodeIds(nodes)
             /\ c.type \in Kinds \cup {"drop"}
             /\ IF pendingSelect' # pendingSelect
                THEN /\ pendingSelect'[Len(pendingSelect')][2] = c.id
                     /\ \E n \in Range(nodes) :
                           /\ c.type = n.type
                           /\ c.position = shift(n.position, DuplicateOffset,
                                                  DuplicateOffset)
                ELSE IF c.data = "content"
                THEN c.type = "image" /\ c.position = ViewportCenter
                ELSE c.position = Origin /\ c.data = "none"]_vars

\* a node was added with no position given, to a graph that has an edge, a
\* selected node and a node away from the origin
C25_Witness ==
    /\ Len(nodes) = 3
    /\ nodes[3].position = Origin
    /\ nodes[3].data = "none"
    /\ nodes[3].type \in Kinds
    /\ ~nodes[3].selected
    /\ nodes[2].selected
    /\ nodes[2].position # Origin
    /\ edges # <<>>
    /\ pendingSelect = <<>>

\* a step that pastes copied nodes
NodesPasted == nextId' > nextId /\ unnotified'

\* the copied nodes a paste can hold: those of the store, or those the
\* closure of a handlePaste call under way has kept
PastedFrom == {copiedNodes, pasting.copied}

\* C23: a paste of the copied nodes is one step that appends one clone per
\* copied node, each under an id of its own that no node had, with the kind
\* and data of the copied node and its position moved by (200, 200); after
\* the step the selected nodes are the clones and no other node
C23_PasteIsOneBatch ==
    [][NodesPasted =>
          \E copied \in PastedFrom :
             LET k == Len(copied)
                 n == Len(nodes)
             IN /\ k > 0
                /\ Len(nodes') = n + k
                /\ \A i \in 1..n :
                      nodes'[i] = [nodes[i] EXCEPT !.selected = FALSE]
                /\ \A i \in 1..k :
                      /\ nodes'[n + i].id \notin NodeIds(nodes)
                      /\ nodes'[n + i].type = copied[i].type
                      /\ nodes'[n + i].data = copied[i].data
                      /\ nodes'[n + i].position =
                             [x |-> copied[i].position.x + DuplicateOffset,
                              y |-> copied[i].position.y + DuplicateOffset]
                /\ \A i \in 1..k, j \in 1..k :
                      nodes'[n + i].id = nodes'[n + j].id => i = j
                /\ {m.id : m \in {m \in Range(nodes') : m.selected}}
                      = {nodes'[n + i].id : i \in 1..k}
                /\ edges' = edges]_vars

\* two nodes were copied and pasted: the graph holds the two nodes, not
\* selected, and after them their two clones, selected
C23_Witness ==
    /\ Len(copiedNodes) = 2
    /\ Len(nodes) = 4
    /\ unnotified
    /\ \A i \in 1..2 :
          /\ nodes[i].id = copiedNodes[i].id
          /\ ~nodes[i].selected
          /\ nodes[i + 2].selected
          /\ nodes[i + 2].type = nodes[i].type
          /\ nodes[i + 2].position = shift(copiedNodes[i].position,
                                           DuplicateOffset, DuplicateOffset)

\* C24: a paste whose clipboard read is denied goes on with the copied nodes:
\* it pastes them if there are any, and changes neither nodes nor edges if
\* there are none; where the Clipboard API is not there, the paste of the
\* copied nodes is the whole gesture
C24_ReadDeniedFallsBack ==
    [][(pasting.stage = "read" /\ pasting' = pasteEnded("read")) =>
          /\ edges' = edges
          /\ IF Len(pasting.copied) = 0
             THEN nodes' = nodes
             ELSE /\ Len(nodes') = Len(nodes) + Len(pasting.copied)
                  /\ \A i \in 1..Len(pasting.copied) :
                        LET c == nodes'[Len(nodes) + i]
                        IN /\ c.id \notin NodeIds(nodes)
                           /\ c.type = pasting.copied[i].type
                           /\ c.data = pasting.copied[i].data
                           /\ c.selected]_vars

\* the clipboard read of the last paste was denied, and the graph holds the
\* copied node and, after it, its clone
C24_Witness ==
    /\ pasting = pasteEnded("read")
    /\ Len(copiedNodes) = 1
    /\ Len(nodes) = 2
    /\ nodes[1].id = copiedNodes[1].id
    /\ nodes[2].type = nodes[1].type
    /\ nodes[2].selected
    /\ ~nodes[1].selected
    /\ unnotified

\* C26: the step that ends a save attempt with success records a new
\* last-successful-save time, later than the one before; the step that ends
\* an attempt with a failure keeps the time as it was, and so does every
\* other step
C26_LastSavedOnSuccessOnly ==
    [][IF Len(inflight') < Len(inflight) /\ saveOutcome' = "saved"
       THEN lastSaved' > lastSaved
       ELSE lastSaved' = lastSaved]_vars

\* a save succeeded, a later one failed, and the time of the successful one
\* is still recorded while the graph has moved on from what was written
C26_Witness ==
    /\ saveOutcome = "error"
    /\ lastSaved = 1
    /\ inflight = <<>>
    /\ server # toObject

\* C28: the saving flag is set exactly while a save request is unanswered:
\* it is set when the request is issued and cleared when the request is
\* answered, whether with success, an error response or a throw
C28_SavingFlagTracksRequest == isSaving <=> (inflight # <<>>)

\* both answers have happened, the failure last, and the flag is clear
\* while the timer is armed for the next attempt
C28_Witness ==
    /\ saveOutcome = "error"
    /\ lastSaved = 2
    /\ ~isSaving
    /\ timerArmed

\* the snapshot is a graph: both fields are there, no two nodes share an id
\* and every edge links two of the nodes
WellFormed(c) ==
    /\ ~c.isNull
    /\ c.nodes.defined
    /\ c.edges.defined
    /\ Cardinality(NodeIds(c.nodes.value)) = Len(c.nodes.value)
    /\ \A e \in Range(c.edges.value) :
          e.source \in NodeIds(c.nodes.value) /\ e.target \in NodeIds(c.nodes.value)

\* the project was opened and nothing has happened since
JustOpened ==
    /\ nextId = 1 + Cardinality(usedIds(content))
    /\ nextEdgeId = 1 + Len(content.edges.value)
    /\ copiedNodes = <<>>
    /\ ~connection.active
    /\ pendingSelect = <<>>
    /\ ~splitting.active
    /\ pasting = pasteEnded("none")
    /\ ~timerArmed
    /\ ~unnotified

\* C27: a project whose persisted snapshot is missing or is not a graph
\* opens with no nodes and no edges
C27_CorruptOpensEmpty ==
    (JustOpened /\ ~WellFormed(content)) => (nodes = <<>> /\ edges = <<>>)
====
